---- MODULE Spec2Model ----
(***************************************************************************)
(* PyChEmiss: the emission preprocessors src/pychemiss.py and aas4wrf.py   *)
(* as state machines.  One run of a script is a straight line of steps     *)
(* (read the table, reshape, regrid, compose, write, report); each step is *)
(* one action, and a Python exception ends the run in pc = "error".        *)
(*                                                                         *)
(* Numbers.  Coordinates are even integers, so that the halves taken by    *)
(* cell_bound are exact.  A total of the conservation diagnostic is kept   *)
(* as the exact decimal fraction [num, exp10] = num / 10^exp10.            *)
(* Strings are TLA+ strings; a Python value that may be a str or a tuple   *)
(* of str is a record [type, val] with val the sequence of its strings.    *)
(***************************************************************************)
EXTENDS Integers, Sequences, FiniteSets, TLC

VARIABLES
    script,       \* which entry script runs: "pychemiss" or "aas4wrf"
    pc,           \* position of the run in the script's main block
    err,          \* the exception that ended the run, "none" otherwise
    config,       \* the parsed YAML configuration
    disk,         \* the files on disk: path -> content
    disk0,        \* the files on disk when the run started (never changes)
    emiss_df,     \* the emission table (pandas DataFrame)
    lon1d,        \* longitudes derived from the table
    lat1d,        \* latitudes derived from the table
    date,         \* hourly DatetimeIndex from start_date to end_date
    emiss_input,  \* the reshaped emission dataset
    wrfinput,     \* the opened wrfinput dataset
    wrf_coords,   \* aas4wrf.py: cell centres (and bounds) of the WRF grid
    emiss_coords, \* aas4wrf.py: cell centres (and bounds) of the emission grid
    wrfchemi,     \* the regridded (then composed) dataset
    stdout,       \* the lines printed so far
    cb_coord,     \* cell_bound called on its own: its argument coord
    cb_final      \* cell_bound called on its own: its result coord_b_final

vars == <<script, pc, err, config, disk, disk0, emiss_df, lon1d, lat1d, date,
          emiss_input, wrfinput, wrf_coords, emiss_coords, wrfchemi, stdout,
          cb_coord, cb_final>>

-----------------------------------------------------------------------------
(* Bounds of the model *)

MaxT == 2          \* hourly steps of a short run (specification Spec)
MaxNx == 2         \* longitudes of the emission grid
MaxNy == 2         \* latitudes of the emission grid
MaxHours == 26     \* hourly steps of a long run (specification SpecDay)
MaxLen == 3        \* length of a coordinate array given to cell_bound

-----------------------------------------------------------------------------
(* Generic helpers *)

Min(a, b) == IF a < b THEN a ELSE b

Abs(a) == IF a < 0 THEN 0 - a ELSE a

RECURSIVE SumSeq(_)
SumSeq(s) == IF s = <<>> THEN 0 ELSE Head(s) + SumSeq(Tail(s))

\* The sequence s as an explicit tuple: its elements are computed once.
Tup(s) == SubSeq(s, 1, Len(s))

Reverse(s) == [k \in 1..Len(s) |-> s[Len(s) + 1 - k]]

Range(s) == {s[k] : k \in 1..Len(s)}

\* An unbound Python name.
Unbound == [bound |-> FALSE]

NoAttrs == [k \in {} |-> 0]

SetAttr(a, k, v) == [x \in (DOMAIN a) \cup {k} |-> IF x = k THEN v ELSE a[x]]

-----------------------------------------------------------------------------
(* Python strings *)

DigitStr == <<"0", "1", "2", "3", "4", "5", "6", "7", "8", "9">>

\* str(n) of a non-negative int
RECURSIVE Str(_)
Str(n) == IF n < 10 THEN DigitStr[n + 1]
          ELSE Str(n \div 10) \o DigitStr[(n % 10) + 1]

Pad2(n) == IF n < 10 THEN "0" \o Str(n) ELSE Str(n)

\* sep.join(parts)
RECURSIVE Join(_, _)
Join(sep, parts) ==
    IF parts = <<>> THEN ""
    ELSE IF Len(parts) = 1 THEN parts[1]
    ELSE parts[1] \o sep \o Join(sep, Tail(parts))

\* A timestamp is a number of hours since 2018-07-01 00:00 (all runs of the
\* model stay inside that month); strftime("%Y-%m-%d_%H:%M:%S")
Strftime(h) ==
    "2018-07-" \o Pad2((h \div 24) + 1) \o "_" \o Pad2(h % 24) \o ":00:00"

\* pd.date_range(start, end, freq='H'): both ends included
date_range(start, end) ==
    IF end < start THEN <<>> ELSE [k \in 1..(end - start + 1) |-> start + k - 1]

PyStr(s) == [type |-> "str", val |-> <<s>>]

PyTuple(items) == [type |-> "tuple", val |-> items]

-----------------------------------------------------------------------------
(* Python / numpy sequence operations *)

\* s[:stop:step] for stop >= 0, step >= 1
PySlice(s, stop, step) ==
    LET m == Min(stop, Len(s))
        n == (m + step - 1) \div step
    IN  [k \in 1..n |-> s[(k - 1) * step + 1]]

\* s[lo:hi] for 0 <= lo, 0 <= hi  (0-based, hi excluded)
PyRange(s, lo, hi) ==
    LET h == Min(hi, Len(s))
    IN  IF h <= lo THEN <<>> ELSE SubSeq(s, lo + 1, h)

\* The rows of length k that a C-ordered flat array splits into.
Chunk(flat, k) ==
    Tup([c \in 1..(Len(flat) \div k) |->
            SubSeq(flat, (c - 1) * k + 1, c * k)])

\* numpy's flat.reshape(nt, ny, nx): C order, the last axis varies fastest.
\* The caller checks the size (ReshapeOk).
ReshapeOk(flat, nt, ny, nx) == Len(flat) = nt * ny * nx

\* A slip: Fortran order, the first of the two grid axes varying fastest.
Reshape_F_order(flat, nt, ny, nx) ==
    Tup([t \in 1..nt |-> Tup([j \in 1..ny |-> Tup([i \in 1..nx |->
            flat[(t - 1) * ny * nx + (i - 1) * ny + j]])])])

ReshapePlanes(planes, nt, nx) == Tup([t \in 1..nt |-> Chunk(planes[t], nx)])

Reshape(flat, nt, ny, nx) == ReshapePlanes(Chunk(flat, ny * nx), nt, nx)

\* np.meshgrid(lon1d, lat1d): two arrays of shape (len(lat1d), len(lon1d))
MeshLon(lon, lat) ==
    Tup([j \in 1..Len(lat) |-> Tup([i \in 1..Len(lon) |-> lon[i]])])

MeshLat(lon, lat) ==
    Tup([j \in 1..Len(lat) |-> Tup([i \in 1..Len(lon) |-> lat[j]])])

\* Sum of all elements of a [time][row][column] array, each weighted by the
\* weight of its cell.
RECURSIVE SumRow(_, _)
SumRow(row, w) ==
    IF row = <<>> THEN 0 ELSE Head(row) * Head(w) + SumRow(Tail(row), Tail(w))

RECURSIVE SumPlane(_, _)
SumPlane(plane, w) ==
    IF plane = <<>> THEN 0
    ELSE SumRow(Head(plane), Head(w)) + SumPlane(Tail(plane), Tail(w))

RECURSIVE SumField(_, _)
SumField(field, w) ==
    IF field = <<>> THEN 0
    ELSE SumPlane(Head(field), w) + SumField(Tail(field), w)

-----------------------------------------------------------------------------
(* The input files *)

\* The emission table is a delimited text file: an index column, "lon",
\* "lat", then one column per species.  Rows are ordered time-major with the
\* longitude varying fastest; on disk the file is described by its column
\* names, its number of rows and the grid it was written for.
SpeciesSeed == [E_CO |-> 1, E_NO |-> 2, E_NO2 |-> 3, E_SO2 |-> 5]

\* The value of column `name` in 0-based row r.  Every row of a species
\* column holds a different value.
TableCell(name, r, nx, ny) ==
    CASE name = "lon" -> 2 * (r % nx)
      [] name = "lat" -> 2 * ((r \div nx) % ny)
      [] name \in DOMAIN SpeciesSeed -> SpeciesSeed[name] + r
      [] OTHER -> r

CsvFile(col_names, nrows, nx, ny) ==
    [kind |-> "csv", col_names |-> col_names, nrows |-> nrows,
     nx |-> nx, ny |-> ny]

\* A wrfinput file of a 2 x 2 domain whose cells are the first cells of the
\* emission grid (centres 0 and 2, staggered edges -1, 1, 3).
WrfCentres == <<0, 2>>

WrfEdges == <<0 - 1, 1, 3>>

WrfFile(grid_id, times0) ==
    [kind |-> "netcdf",
     attrs |-> [TITLE |-> " OUTPUT FROM REAL_EM V4.1 PREPROCESSOR",
                GRID_ID |-> grid_id, DX |-> 3, DY |-> 3],
     Times |-> <<times0>>,
     XLAT |-> MeshLat(WrfCentres, WrfCentres),
     XLONG |-> MeshLon(WrfCentres, WrfCentres),
     XLONG_U |-> MeshLon(WrfEdges, WrfCentres),
     XLAT_V |-> MeshLat(WrfCentres, WrfEdges)]

\* A file of the user that happens to be in the working directory.
UserFile == [kind |-> "user"]

-----------------------------------------------------------------------------
(* read_local_emiss and the dimensions of the emission file *)

\* pd.read_csv: the table, one sequence per column.  (With header = True the
\* names come from the file's first line, which holds the same col_names.)
read_local_emiss(file) ==
    [bound |-> TRUE,
     nrows |-> file.nrows,
     cols |-> [c \in Range(file.col_names) |->
                 [r \in 1..file.nrows |->
                    TableCell(c, r - 1, file.nx, file.ny)]]]

\* col_names[3:]
emiss_names_of(col_names) == PyRange(col_names, 3, Len(col_names))

\* emiss_df["lon"][: n_lon].values
py_lon1d(df, n_lon) == PySlice(df.cols["lon"], n_lon, 1)

\* emiss_df["lat"][: n_points: n_lon].values
py_lat1d(df, n_lon, n_lat) == PySlice(df.cols["lat"], n_lon * n_lat, n_lon)

\* A slip: the reversal of the main block forgotten.
aas_lat1d_unreversed(df, n_lon, n_lat) ==
    PySlice(df.cols["lat"], n_lon * n_lat, n_lon)

\* aas4wrf.py reverses the latitudes: [...].values[::-1]
aas_lat1d(df, n_lon, n_lat) ==
    Reverse(PySlice(df.cols["lat"], n_lon * n_lat, n_lon))

-----------------------------------------------------------------------------
(* The grid reshaper *)

\* src/pychemiss.py create_dataset_per_emiss: a dataset of one species.
create_dataset_per_emiss(df, emi, lat, lon, dates) ==
    [bound |-> TRUE,
     dims |-> <<"Time", "south_north", "west_east">>,
     vars |-> [v \in {emi} |->
                 [data |-> Reshape(df.cols[emi], Len(dates), Len(lat), Len(lon)),
                  dims |-> <<"Time", "south_north", "west_east">>,
                  attrs |-> NoAttrs]],
     coords |-> [Time |-> [k \in 1..Len(dates) |-> k - 1],
                 lat |-> MeshLat(lon, lat),
                 lon |-> MeshLon(lon, lat)],
     attrs |-> NoAttrs]

\* aas4wrf.py create_dataaaray_per_emi: a data array of one species.  The
\* emissions_zdim axis has length 1 and is not an index of `data`.
create_dataaaray_per_emi(df, pol, lat, lon, dates) ==
    [data |-> Reshape(df.cols[pol], Len(dates), Len(lat), Len(lon)),
     dims |-> <<"Time", "emissions_zdim", "lat", "lon">>,
     coords |-> [Time |-> dates, emissions_zdim |-> 0,
                 lat |-> Reverse(lat), lon |-> lon],
     attrs |-> NoAttrs]

\* The reshape of create_dataset_per_emiss / create_dataaaray_per_emi raises
\* ValueError unless the column has len(date) * len(lat) * len(lon) values.
reshape_raises(df, emi, lat, lon, dates) ==
    ~ReshapeOk(df.cols[emi], Len(dates), Len(lat), Len(lon))

\* xr.merge(list(DS.values())) of the per-species datasets
py_emiss_input(df, names, lat, lon, dates) ==
    LET one(emi) == create_dataset_per_emiss(df, emi, lat, lon, dates)
    IN  [bound |-> TRUE,
         dims |-> <<"Time", "south_north", "west_east">>,
         vars |-> [v \in Range(names) |-> one(v).vars[v]],
         coords |-> one(names[1]).coords,
         attrs |-> NoAttrs]

\* emiss_input = xr.Dataset(); emiss_input[emi] = create_dataaaray_per_emi(..)
aas_emiss_input(df, names, lat, lon, dates) ==
    LET one(emi) == create_dataaaray_per_emi(df, emi, lat, lon, dates)
    IN  [bound |-> TRUE,
         dims |-> one(names[1]).dims,
         vars |-> [v \in Range(names) |->
                     [data |-> one(v).data, dims |-> one(v).dims,
                      attrs |-> one(v).attrs]],
         coords |-> one(names[1]).coords,
         attrs |-> NoAttrs]

-----------------------------------------------------------------------------
(* The cell-boundary calculator *)

\* x / 2; every coordinate of the model is even, so the half is exact.
Half(x) == x \div 2

\* dx[0] and dx[-1] raise IndexError when coord has fewer than two entries.
cell_bound_raises(coord) == Len(coord) < 2

\* A slip: the last edge extrapolated with the first spacing.
cell_bound_last_first_dx(coord, dx) == coord[Len(coord)] + Half(dx[1])

\* coord[-1] + dx[-1]/2
cell_bound_last(coord, dx) == coord[Len(coord)] + Half(dx[Len(dx)])

cell_bound(coord) ==
    LET n == Len(coord)
        dx == [k \in 1..(n - 1) |-> coord[k + 1] - coord[k]]
        coord_b == [k \in 1..(n - 1) |-> coord[k] + Half(dx[k])]
        coord_0 == coord[1] - Half(dx[1])
        coord_f == cell_bound_last(coord, dx)
    IN  Append(<<coord_0>> \o coord_b, coord_f)

-----------------------------------------------------------------------------
(* The regridding library and the area tool, as far as the scripts use them *)

\* xESMF's regridder, for a destination grid whose cells each lie inside one
\* cell of the source grid: with 'nearest_s2d' and with 'conservative' alike
\* a destination cell then takes the value of that source cell, the one with
\* the nearest centre.  Variable attributes are not kept.
NearestCell(slat, slon, y, x) ==
    LET cells == {<<j, i>> : j \in 1..Len(slat), i \in 1..Len(slat[1])}
        d(c) == (slat[c[1]][c[2]] - y) * (slat[c[1]][c[2]] - y)
                + (slon[c[1]][c[2]] - x) * (slon[c[1]][c[2]] - x)
        best == {c \in cells : \A c2 \in cells : d(c) <= d(c2)}
    IN  CHOOSE c \in best : \A c2 \in best :
            c[1] < c2[1] \/ (c[1] = c2[1] /\ c[2] <= c2[2])

nearest_cells(slat, slon, dlat, dlon) ==
    Tup([J \in 1..Len(dlat) |-> Tup([I \in 1..Len(dlat[1]) |->
            NearestCell(slat, slon, dlat[J][I], dlon[J][I])])])

regrid_field(field, near) ==
    Tup([t \in 1..Len(field) |->
           Tup([J \in 1..Len(near) |-> Tup([I \in 1..Len(near[1]) |->
                  field[t][near[J][I][1]][near[J][I][2]]])])])

regrid_with(ds, near, dlat, dlon) ==
    LET out(field) == regrid_field(field, near)
    IN  [bound |-> TRUE,
         dims |-> ds.dims,
         vars |-> [v \in DOMAIN ds.vars |->
                     [data |-> out(ds.vars[v].data), dims |-> ds.vars[v].dims,
                      attrs |-> NoAttrs]],
         coords |-> [c \in DOMAIN ds.coords |->
                       IF c = "lat" THEN dlat
                       ELSE IF c = "lon" THEN dlon ELSE ds.coords[c]],
         attrs |-> NoAttrs]

xe_regrid(ds, slat, slon, dlat, dlon) ==
    regrid_with(ds, nearest_cells(slat, slon, dlat, dlon), dlat, dlon)

\* The weight file xESMF's Regridder leaves in the working directory until
\* clean_weight_file() removes it.
weight_file(method, slat, slon, dlat, dlon) ==
    Join("_", <<method,
                Str(Len(slat)) \o "x" \o Str(Len(slon)),
                Str(Len(dlat)) \o "x" \o Str(Len(dlon))>>) \o ".nc"

\* cdo gridarea: the area in m^2 of each cell of a regular lon-lat grid; it
\* depends on the latitude of the cell alone.
cdo_gridarea(lat, lon) ==
    Tup([j \in 1..Len(lat) |-> Tup([i \in 1..Len(lon) |-> 9 - Half(lat[j])])])

-----------------------------------------------------------------------------
(* The conservation diagnostic *)

\* The decimal fraction num / 10^exp10
Dec(num, exp10) == [num |-> num, exp10 |-> exp10]

Uniform(field, w) ==
    Tup([j \in 1..Len(field[1]) |-> Tup([i \in 1..Len(field[1][1]) |-> w])])

\* src/pychemiss.py: (emiss_input[pol] * cell_area).sum() * (mm / 10**9)
py_total_emiss_emiss_input(ds, pol, molecular_mass, cell_area) ==
    Dec(SumField(ds.vars[pol].data, Uniform(ds.vars[pol].data, cell_area))
          * molecular_mass, 9)

\* aas4wrf.py: (emiss_pol * emiss_area / 10**6).sum() * mm / 10**9
aas_total_emiss_emiss_input(ds, pol, molecular_mass, emiss_area) ==
    Dec(SumField(ds.vars[pol].data, emiss_area) * molecular_mass, 6 + 9)

\* A slip: the area of the WRF cells left out of the sum.
total_emiss_wrfchemi_no_area(ds, pol, molecular_mass, wrf) ==
    Dec(SumField(ds.vars[pol].data, Uniform(ds.vars[pol].data, 1))
          * molecular_mass, 6 + 9)

\* Both scripts: wrf_cell_area_km = DX * DY / 10**6;
\* (wrf_pol * wrf_cell_area_km).sum() * mm / 10**9
total_emiss_wrfchemi(ds, pol, molecular_mass, wrf) ==
    Dec(SumField(ds.vars[pol].data,
                 Uniform(ds.vars[pol].data, wrf.attrs.DX * wrf.attrs.DY))
          * molecular_mass, 6 + 9)

\* The species the diagnostic reads, with the molecular mass it uses.
CheckedSpecies == <<"E_CO", "E_NO", "E_NO2">>

MolecularMass == [E_CO |-> 28, E_NO |-> 30, E_NO2 |-> 46]

\* emiss_input[pol] raises KeyError when pol is not a species of the table.
diagnostic_raises(ds) == \E k \in 1..Len(CheckedSpecies) :
                            CheckedSpecies[k] \notin DOMAIN ds.vars

Line(text, args) == [text |-> text, args |-> args]

\* The lines printed by nearest_method of src/pychemiss.py
py_report(co, no, no2, co_wrf, no_wrf, no2_wrf) ==
    << Line("----------INPUT TOTAL EMISSIONS----------", <<>>),
       Line("Total CO emission = {:.2f} kTn", <<co>>),
       Line("Total NO emission = {:.2f} kTn", <<no>>),
       Line("Total NO2 emission = {:.2f} kTn", <<no2>>),
       Line("----------AFTER REGRIDDING TOTAL EMISSION----------", <<>>),
       Line("Total CO emission after regridding = {:.2f} kTn", <<co_wrf>>),
       Line("Total NO emission after regridding = {:.2f} kTn", <<no_wrf>>),
       Line("Total NO3 emission after regridding = {:.2f} kTn", <<no2_wrf>>) >>

\* The lines printed by conservative_method of aas4wrf.py
aas_report(co, no, no2, co_wrf, no_wrf, no2_wrf) ==
    << Line("----------INPUT TOTAL EMISSIONS----------", <<>>),
       Line("Total CO emission = {:.2f} kTn", <<co>>),
       Line("Total NO emission = {:.2f} kTn", <<no>>),
       Line("Total NO2 emission = {:.2f} kTn", <<no2>>),
       Line("----------AFTER REGRIDDING TOTAL EMISSION----------", <<>>),
       Line("Total CO emission after regridding = {:.2f} kTn", <<co_wrf>>),
       Line("Total NO emission after regridding = {:.2f} kTn", <<no_wrf>>),
       Line("Total NO2 emission after regridding = {:.2f} kTn", <<no2_wrf>>) >>

-----------------------------------------------------------------------------
(* The two regridding methods *)

\* A slip: the diagnostic left out of nearest_method.
py_nearest_method_no_diagnostic(wrf, ds, dates, cell_area) ==
    [raises |-> "none",
     wrfchemi |-> xe_regrid(ds, ds.coords.lat, ds.coords.lon,
                            wrf.XLAT, wrf.XLONG),
     out |-> <<>>]

\* src/pychemiss.py nearest_method: the regridded dataset and the lines of
\* the diagnostic, or the KeyError of a species the diagnostic misses.
py_nearest_method(wrf, ds, dates, cell_area) ==
    LET xlat == wrf.XLAT
        xlon == wrf.XLONG
        regridded == xe_regrid(ds, ds.coords.lat, ds.coords.lon, xlat, xlon)
        tin(pol) == py_total_emiss_emiss_input(ds, pol, MolecularMass[pol],
                                               cell_area)
        tout(pol) == total_emiss_wrfchemi(regridded, pol, MolecularMass[pol],
                                          wrf)
    IN  IF diagnostic_raises(ds)
        THEN [raises |-> "KeyError", wrfchemi |-> Unbound, out |-> <<>>]
        ELSE [raises |-> "none", wrfchemi |-> regridded,
              out |-> py_report(tin("E_CO"), tin("E_NO"), tin("E_NO2"),
                                tout("E_CO"), tout("E_NO"), tout("E_NO2"))]

\* aas4wrf.py nearest_method: the weight file is written and cleaned again.
aas_nearest_method(wrf_c, emiss_c, ds, files) ==
    LET regridded == xe_regrid(ds, MeshLat(emiss_c.lon, emiss_c.lat),
                                   MeshLon(emiss_c.lon, emiss_c.lat),
                                   MeshLat(wrf_c.lon, wrf_c.lat),
                                   MeshLon(wrf_c.lon, wrf_c.lat))
        wfile == weight_file("nearest_s2d", emiss_c.lat, emiss_c.lon,
                             wrf_c.lat, wrf_c.lon)
    IN  [raises |-> "none", wrfchemi |-> regridded, out |-> <<>>,
         wrf_coords |-> wrf_c, emiss_coords |-> emiss_c,
         disk |-> [f \in (DOMAIN files) \ {wfile} |-> files[f]]]

\* Writing (or overwriting) and removing a file
PutFile(files, path, content) ==
    [f \in (DOMAIN files) \cup {path} |->
        IF f = path THEN content ELSE files[f]]

RemoveFiles(files, paths) == [f \in (DOMAIN files) \ paths |-> files[f]]

\* The files conservative_method removes before it returns (lines 268-270).
conservative_cleanup(files, wfile) ==
    RemoveFiles(files, {wfile, "emiss_input.nc", "emiss_input_area.nc"})

\* aas4wrf.py conservative_method.  In order: the cell bounds (IndexError on
\* an axis of one cell), the regridder and its weight file, the two files
\* of the area computation, the regridding, the diagnostic (KeyError on a
\* missing species), the report, the clean-up.  The result carries the disk
\* as the function leaves it, on return or on the exception.
conservative_method(wrf_c, emiss_c, ds, wrf, files) ==
    LET wrf_c2 == [lon |-> wrf_c.lon, lat |-> wrf_c.lat,
                   lon_b |-> wrf.XLONG_U[1],
                   lat_b |-> [j \in 1..Len(wrf.XLAT_V) |-> wrf.XLAT_V[j][1]]]
        emiss_c2 == [lon |-> emiss_c.lon, lat |-> emiss_c.lat,
                     lon_b |-> cell_bound(ds.coords.lon),
                     lat_b |-> cell_bound(ds.coords.lat)]
        wfile == weight_file("conservative", emiss_c.lat, emiss_c.lon,
                             wrf_c.lat, wrf_c.lon)
        files1 == PutFile(files, wfile, [kind |-> "weights"])
        files2 == PutFile(files1, "emiss_input.nc",
                          [kind |-> "netcdf", ds |-> ds])
        emiss_area == cdo_gridarea(ds.coords.lat, ds.coords.lon)
        files3 == PutFile(files2, "emiss_input_area.nc",
                          [kind |-> "netcdf", cell_area |-> emiss_area])
        regridded == xe_regrid(ds, MeshLat(emiss_c.lon, emiss_c.lat),
                                   MeshLon(emiss_c.lon, emiss_c.lat),
                                   MeshLat(wrf_c.lon, wrf_c.lat),
                                   MeshLon(wrf_c.lon, wrf_c.lat))
        tin(pol) == aas_total_emiss_emiss_input(ds, pol, MolecularMass[pol],
                                                emiss_area)
        tout(pol) == total_emiss_wrfchemi(regridded, pol, MolecularMass[pol],
                                          wrf)
    IN  IF cell_bound_raises(ds.coords.lon)
        THEN [raises |-> "IndexError", wrfchemi |-> Unbound, out |-> <<>>,
              wrf_coords |-> wrf_c2, emiss_coords |-> emiss_c, disk |-> files]
        ELSE IF cell_bound_raises(ds.coords.lat)
        THEN [raises |-> "IndexError", wrfchemi |-> Unbound, out |-> <<>>,
              wrf_coords |-> wrf_c2,
              emiss_coords |-> [lon |-> emiss_c.lon, lat |-> emiss_c.lat,
                                lon_b |-> cell_bound(ds.coords.lon)],
              disk |-> files]
        ELSE IF diagnostic_raises(ds)
        THEN [raises |-> "KeyError", wrfchemi |-> Unbound, out |-> <<>>,
              wrf_coords |-> wrf_c2, emiss_coords |-> emiss_c2,
              disk |-> files3]
        ELSE [raises |-> "none", wrfchemi |-> regridded,
              out |-> aas_report(tin("E_CO"), tin("E_NO"), tin("E_NO2"),
                                 tout("E_CO"), tout("E_NO"), tout("E_NO2")),
              wrf_coords |-> wrf_c2, emiss_coords |-> emiss_c2,
              disk |-> conservative_cleanup(files3, wfile)]

-----------------------------------------------------------------------------
(* The output composer *)

\* A slip: the units attribute forgotten.
write_var_attributes_no_units(var) ==
    [data |-> var.data, dims |-> var.dims,
     attrs |-> SetAttr(SetAttr(SetAttr(SetAttr(SetAttr(var.attrs,
                 "FieldType", 104),
                 "MemoryOrder", "XYZ"),
                 "description", "EMISSIONS"),
                 "stagger", ""),
                 "coordinates", "XLONG XLAT")]

\* The six attributes of an emitted species variable
write_var_attributes(var) ==
    [data |-> var.data, dims |-> var.dims,
     attrs |-> SetAttr(SetAttr(SetAttr(SetAttr(SetAttr(SetAttr(var.attrs,
                 "FieldType", 104),
                 "MemoryOrder", "XYZ"),
                 "description", "EMISSIONS"),
                 "units", "mol km^2 hr^-1"),
                 "stagger", ""),
                 "coordinates", "XLONG XLAT")]

\* for emi in emiss_names: the attributes of wrfchemi[emi]
RECURSIVE stamp_species(_, _)
stamp_species(dsvars, names) ==
    IF names = <<>> THEN dsvars
    ELSE stamp_species([v \in DOMAIN dsvars |->
                          IF v = Head(names) THEN write_var_attributes(dsvars[v])
                          ELSE dsvars[v]],
                       Tail(names))

\* A slip: the TITLE of wrfinput left out of the copy.
copy_global_attrs_but_title(attrs, wrf_attrs) ==
    [k \in (DOMAIN attrs) \cup ((DOMAIN wrf_attrs) \ {"TITLE"}) |->
        IF k \in DOMAIN wrf_attrs THEN wrf_attrs[k] ELSE attrs[k]]

\* for key, value in wrfinput.attrs.items(): wrfchemi.attrs[key] = value
copy_global_attrs(attrs, wrf_attrs) ==
    [k \in (DOMAIN attrs) \cup (DOMAIN wrf_attrs) |->
        IF k \in DOMAIN wrf_attrs THEN wrf_attrs[k] ELSE attrs[k]]

\* wrfchemi[name] = value: a data variable of the dataset
set_variable(dsvars, name, var) ==
    [v \in (DOMAIN dsvars) \cup {name} |-> IF v = name THEN var ELSE dsvars[v]]

times_variable(dates) ==
    [data |-> [k \in 1..Len(dates) |-> Strftime(dates[k])],
     dims |-> <<"Time">>, attrs |-> NoAttrs]

title_variable(text) == [data |-> text, dims |-> <<>>, attrs |-> NoAttrs]

\* src/pychemiss.py wrfchemi_to_netcdf
wrfchemi_to_netcdf(ds, wrf, dates, names) ==
    LET dims4 == <<"Time", "emissions_zdim", "south_north", "west_east">>
        vars1 == [v \in DOMAIN ds.vars |->
                    [data |-> ds.vars[v].data, dims |-> dims4,
                     attrs |-> ds.vars[v].attrs]]
        vars2 == set_variable(vars1, "Times", times_variable(dates))
        vars3 == set_variable(vars2, "TITLE",
                     title_variable("OUTPUT FROM PYCHEMISS PREPROCESSOR"))
    IN  [bound |-> TRUE,
         dims |-> dims4,
         vars |-> stamp_species(vars3, names),
         coords |-> [Time |-> ds.coords.Time, emissions_zdim |-> 0,
                     XLAT |-> ds.coords.lat, XLONG |-> ds.coords.lon],
         attrs |-> copy_global_attrs(ds.attrs, wrf.attrs)]

\* aas4wrf.py lines 412-425: attributes, TITLE, species attributes, Times
aas_compose(ds, wrf, dates, names) ==
    LET vars1 == set_variable(ds.vars, "TITLE",
                     title_variable("OUTPUT FROM AAS4WRF PREPROCESSOR"))
        vars2 == stamp_species(vars1, names)
        vars3 == set_variable(vars2, "Times", times_variable(dates))
    IN  [bound |-> TRUE,
         dims |-> ds.dims,
         vars |-> vars3,
         coords |-> ds.coords,
         attrs |-> copy_global_attrs(ds.attrs, wrf.attrs)]

-----------------------------------------------------------------------------
(* Naming and writing the output *)

\* src/pychemiss.py name_wrfchemi_file: one name (a str) or the two names of
\* the half-day files (a tuple).
name_wrfchemi_file(wrf, dates) ==
    LET dom == "d0" \o Str(wrf.attrs.GRID_ID)
    IN  IF Len(dates) > 24
        THEN PyStr(Join("_", <<"wrfchemi", dom, wrf.Times[1]>>))
        ELSE PyTuple(<<Join("_", <<"wrfchemi", dom, "00z">>),
                       Join("_", <<"wrfchemi", dom, "12z">>)>>)

\* v[k] of a Python value: an item of a tuple, a character of a str
PyIndex(v, k) ==
    IF v.type = "tuple" THEN PyStr(v.val[k + 1])
    ELSE PyStr("character " \o Str(k) \o " of " \o v.val[1])

\* wrfchemi.isel(Time=slice(lo, hi)): every variable with a Time axis
isel_Time(ds, lo, hi) ==
    [bound |-> TRUE,
     dims |-> ds.dims,
     vars |-> [v \in DOMAIN ds.vars |->
                 IF "Time" \in Range(ds.vars[v].dims)
                 THEN [data |-> PyRange(ds.vars[v].data, lo, hi),
                       dims |-> ds.vars[v].dims, attrs |-> ds.vars[v].attrs]
                 ELSE ds.vars[v]],
     coords |-> [c \in DOMAIN ds.coords |->
                   IF c = "Time" THEN PyRange(ds.coords[c], lo, hi)
                   ELSE ds.coords[c]],
     attrs |-> ds.attrs]

\* src/pychemiss.py write_netcdf: path + file_name raises TypeError when
\* file_name is not a str.
write_netcdf_raises(file_name) == file_name.type # "str"

write_netcdf(files, ds, file_name) ==
    PutFile(files, "./results/" \o file_name.val[1],
            [kind |-> "netcdf", ds |-> ds])

\* A slip: the second half cut one step short.
second_half_short(ds) == isel_Time(ds, 12, 23)

\* The two halves of a day that write_wrfchemi writes (lines 341-342)
first_half(ds) == isel_Time(ds, 0, 12)

second_half(ds) == isel_Time(ds, 12, 24)

\* src/pychemiss.py write_wrfchemi: the disk it leaves and the exception it
\* raises, if any.
write_wrfchemi(files, ds, wrf, dates) ==
    LET output_name == name_wrfchemi_file(wrf, dates)
    IN  IF Len(ds.vars["Times"].data) = 24
        THEN IF write_netcdf_raises(PyIndex(output_name, 0))
             THEN [raises |-> "TypeError", disk |-> files]
             ELSE LET files1 == write_netcdf(files, first_half(ds),
                                             PyIndex(output_name, 0))
                  IN  IF write_netcdf_raises(PyIndex(output_name, 1))
                      THEN [raises |-> "TypeError", disk |-> files1]
                      ELSE [raises |-> "none",
                            disk |-> write_netcdf(files1, second_half(ds),
                                                  PyIndex(output_name, 1))]
        ELSE IF write_netcdf_raises(output_name)
             THEN [raises |-> "TypeError", disk |-> files]
             ELSE [raises |-> "none",
                   disk |-> write_netcdf(files, ds, output_name)]

\* aas4wrf.py lines 427-432: wrfchemi.to_netcdf(output_name, ...)
aas_write(files, ds, output_name) ==
    PutFile(files, output_name, [kind |-> "netcdf", ds |-> ds])

-----------------------------------------------------------------------------
(* The runs of the model *)

Scripts == {"pychemiss", "aas4wrf"}

Methods == {"nearest_s2d", "conservative"}

ColNames == { <<"id", "lon", "lat", "E_CO", "E_NO", "E_NO2">>,
              <<"id", "lon", "lat", "E_CO", "E_NO", "E_NO2", "E_SO2">>,
              <<"id", "lon", "lat", "E_CO", "E_SO2">>,
              <<"id", "lon", "lat", "E_CO", "E_NO">> }

FullColNames == { <<"id", "lon", "lat", "E_CO", "E_NO", "E_NO2">> }

\* Rows the table has more (or fewer) than hours * ny * nx
RowDeltas == {0 - 2, 0 - 1, 0, 1}

Config(method, nx, ny, start, hours, col_names) ==
    [wrfinput_file |-> "wrfinput_d01",
     emission_file |-> "emissions.txt",
     nx |-> nx, ny |-> ny,
     start_date |-> start, end_date |-> start + hours - 1,
     col_names |-> col_names,
     cell_area |-> 1,
     method |-> method,
     output_name |-> "wrfchemi_d01_out.nc"]

InitialDisk(cfg, csv, wrf, user) ==
    [f \in {cfg.emission_file, cfg.wrfinput_file}
           \cup (IF user THEN {"emiss_input.nc"} ELSE {}) |->
        IF f = cfg.emission_file THEN csv
        ELSE IF f = cfg.wrfinput_file THEN wrf ELSE UserFile]

\* The state of a script at the top of its main block, for each choice of
\* configuration and input files.
InitRun(Hours, Nxs, Nys, Deltas, Cols, GridIds, Starts, WrfStarts, Users) ==
    \E sc \in Scripts, m \in Methods, hours \in Hours, nx \in Nxs, ny \in Nys,
       d \in Deltas, cols \in Cols, g \in GridIds, st \in Starts,
       wst \in WrfStarts, user \in Users :
        LET cfg == Config(m, nx, ny, st, hours, cols)
            nrows == hours * ny * nx + d
        IN  /\ nrows >= 1
            /\ script = sc
            /\ pc = "read"
            /\ err = "none"
            /\ config = cfg
            /\ disk = InitialDisk(cfg, CsvFile(cols, nrows, nx, ny),
                                  WrfFile(g, Strftime(wst)), user)
            /\ disk0 = disk
            /\ emiss_df = Unbound
            /\ lon1d = <<>>
            /\ lat1d = <<>>
            /\ date = <<>>
            /\ emiss_input = Unbound
            /\ wrfinput = Unbound
            /\ wrf_coords = Unbound
            /\ emiss_coords = Unbound
            /\ wrfchemi = Unbound
            /\ stdout = <<>>
            /\ cb_coord = <<>>
            /\ cb_final = <<>>

Raise(exc) == pc' = "error" /\ err' = exc

\* Lines 376-386 of src/pychemiss.py, 361-372 of aas4wrf.py
ReadLocalEmiss ==
    /\ pc = "read"
    /\ LET df == read_local_emiss(disk[config.emission_file])
       IN  /\ emiss_df' = df
           /\ lon1d' = py_lon1d(df, config.nx)
           /\ lat1d' = IF script = "pychemiss"
                       THEN py_lat1d(df, config.nx, config.ny)
                       ELSE aas_lat1d(df, config.nx, config.ny)
    /\ date' = date_range(config.start_date, config.end_date)
    /\ pc' = "reshape"
    /\ UNCHANGED <<script, err, config, disk, disk0, emiss_input, wrfinput,
                   wrf_coords, emiss_coords, wrfchemi, stdout, cb_coord,
                   cb_final>>

\* xr.open_dataset(wrfinput_file)
open_dataset(file) ==
    [bound |-> TRUE, attrs |-> file.attrs, Times |-> file.Times,
     XLAT |-> file.XLAT, XLONG |-> file.XLONG,
     XLONG_U |-> file.XLONG_U, XLAT_V |-> file.XLAT_V]

\* Lines 388-398 of src/pychemiss.py
PyCreateDataset ==
    /\ pc = "reshape" /\ script = "pychemiss"
    /\ LET names == emiss_names_of(config.col_names)
       IN  IF reshape_raises(emiss_df, names[1], lat1d, lon1d, date)
           THEN /\ Raise("ValueError")
                /\ UNCHANGED <<emiss_input, wrfinput>>
           ELSE /\ emiss_input' = py_emiss_input(emiss_df, names, lat1d,
                                                 lon1d, date)
                /\ wrfinput' = open_dataset(disk[config.wrfinput_file])
                /\ pc' = "regrid"
                /\ err' = err
    /\ UNCHANGED <<script, config, disk, disk0, emiss_df, lon1d, lat1d, date,
                   wrf_coords, emiss_coords, wrfchemi, stdout, cb_coord,
                   cb_final>>

\* Lines 375-401 of aas4wrf.py
AasCreateDataset ==
    /\ pc = "reshape" /\ script = "aas4wrf"
    /\ LET names == emiss_names_of(config.col_names)
           ds == aas_emiss_input(emiss_df, names, lat1d, lon1d, date)
           wrf == open_dataset(disk[config.wrfinput_file])
       IN  IF reshape_raises(emiss_df, names[1], lat1d, lon1d, date)
           THEN /\ Raise("ValueError")
                /\ UNCHANGED <<emiss_input, wrfinput, wrf_coords,
                               emiss_coords>>
           ELSE /\ emiss_input' = ds
                /\ wrfinput' = wrf
                /\ wrf_coords' = [lon |-> wrf.XLONG[1],
                                  lat |-> [j \in 1..Len(wrf.XLAT) |->
                                             wrf.XLAT[j][1]]]
                /\ emiss_coords' = [lon |-> ds.coords.lon,
                                    lat |-> ds.coords.lat]
                /\ pc' = "regrid"
                /\ err' = err
    /\ UNCHANGED <<script, config, disk, disk0, emiss_df, lon1d, lat1d, date,
                   wrfchemi, stdout, cb_coord, cb_final>>

\* Lines 400-403 of src/pychemiss.py: only 'nearest_s2d' has a branch; any
\* other method leaves wrfchemi_reggrided unbound.
PyRegrid ==
    /\ pc = "regrid" /\ script = "pychemiss"
    /\ IF config.method = "nearest_s2d"
       THEN LET r == py_nearest_method(wrfinput, emiss_input, date,
                                       config.cell_area)
            IN  /\ wrfchemi' = r.wrfchemi
                /\ stdout' = stdout \o r.out
                /\ IF r.raises = "none"
                   THEN pc' = "compose" /\ err' = err
                   ELSE Raise(r.raises)
       ELSE /\ pc' = "compose"
            /\ UNCHANGED <<wrfchemi, stdout, err>>
    /\ UNCHANGED <<script, config, disk, disk0, emiss_df, lon1d, lat1d, date,
                   emiss_input, wrfinput, wrf_coords, emiss_coords, cb_coord,
                   cb_final>>

\* Lines 404-409 of aas4wrf.py
AasRegrid ==
    /\ pc = "regrid" /\ script = "aas4wrf"
    /\ IF config.method \in {"conservative", "nearest_s2d"}
       THEN LET r == IF config.method = "conservative"
                     THEN conservative_method(wrf_coords, emiss_coords,
                                              emiss_input, wrfinput, disk)
                     ELSE aas_nearest_method(wrf_coords, emiss_coords,
                                             emiss_input, disk)
            IN  /\ wrfchemi' = r.wrfchemi
                /\ stdout' = stdout \o r.out
                /\ wrf_coords' = r.wrf_coords
                /\ emiss_coords' = r.emiss_coords
                /\ disk' = r.disk
                /\ IF r.raises = "none"
                   THEN pc' = "compose" /\ err' = err
                   ELSE Raise(r.raises)
       ELSE /\ pc' = "compose"
            /\ UNCHANGED <<wrfchemi, stdout, wrf_coords, emiss_coords, disk,
                           err>>
    /\ UNCHANGED <<script, config, disk0, emiss_df, lon1d, lat1d, date,
                   emiss_input, wrfinput, cb_coord, cb_final>>

\* Lines 405-407 of src/pychemiss.py
PyCompose ==
    /\ pc = "compose" /\ script = "pychemiss"
    /\ IF ~wrfchemi.bound
       THEN Raise("NameError") /\ UNCHANGED wrfchemi
       ELSE /\ wrfchemi' = wrfchemi_to_netcdf(wrfchemi, wrfinput, date,
                               emiss_names_of(config.col_names))
            /\ pc' = "write"
            /\ err' = err
    /\ UNCHANGED <<script, config, disk, disk0, emiss_df, lon1d, lat1d, date,
                   emiss_input, wrfinput, wrf_coords, emiss_coords, stdout,
                   cb_coord, cb_final>>

\* Lines 412-425 of aas4wrf.py
AasCompose ==
    /\ pc = "compose" /\ script = "aas4wrf"
    /\ IF ~wrfchemi.bound
       THEN Raise("NameError") /\ UNCHANGED wrfchemi
       ELSE /\ wrfchemi' = aas_compose(wrfchemi, wrfinput, date,
                               emiss_names_of(config.col_names))
            /\ pc' = "write"
            /\ err' = err
    /\ UNCHANGED <<script, config, disk, disk0, emiss_df, lon1d, lat1d, date,
                   emiss_input, wrfinput, wrf_coords, emiss_coords, stdout,
                   cb_coord, cb_final>>

\* Lines 409-410 of src/pychemiss.py
PyWrite ==
    /\ pc = "write" /\ script = "pychemiss"
    /\ LET w == write_wrfchemi(disk, wrfchemi, wrfinput, date)
       IN  /\ disk' = w.disk
           /\ IF w.raises = "none"
              THEN pc' = "finish" /\ err' = err
              ELSE Raise(w.raises)
    /\ UNCHANGED <<script, config, disk0, emiss_df, lon1d, lat1d, date,
                   emiss_input, wrfinput, wrf_coords, emiss_coords, wrfchemi,
                   stdout, cb_coord, cb_final>>

\* Lines 427-432 of aas4wrf.py
AasWrite ==
    /\ pc = "write" /\ script = "aas4wrf"
    /\ disk' = aas_write(disk, wrfchemi, config.output_name)
    /\ pc' = "finish"
    /\ UNCHANGED <<script, err, config, disk0, emiss_df, lon1d, lat1d, date,
                   emiss_input, wrfinput, wrf_coords, emiss_coords, wrfchemi,
                   stdout, cb_coord, cb_final>>

success_message(sc) ==
    IF sc = "pychemiss" THEN "Successful completion of PyChEmiss!"
    ELSE "Successful completion of AAS4WRF!"

\* Line 412 of src/pychemiss.py, line 436 of aas4wrf.py
Finish ==
    /\ pc = "finish"
    /\ stdout' = Append(stdout, Line(success_message(script), <<>>))
    /\ pc' = "done"
    /\ UNCHANGED <<script, err, config, disk, disk0, emiss_df, lon1d, lat1d,
                   date, emiss_input, wrfinput, wrf_coords, emiss_coords,
                   wrfchemi, cb_coord, cb_final>>

-----------------------------------------------------------------------------
(* wrfchemi_zeros.py: a wrfchemi file of zero emissions on the WRF grid *)

zeros_emiss_names ==
    <<"E_CO", "E_HCHO", "E_C2H5OH", "E_KET", "E_NH3", "E_XYL",
      "E_TOL", "E_ISO", "E_OLI", "E_OLT", "E_OL2", "E_HC8", "E_HC5",
      "E_ORA2", "E_ETH", "E_ALD", "E_CSL", "E_SO2", "E_HC3", "E_NO2",
      "E_NO", "E_CH3OH", "E_PM25I", "E_PM25J", "E_SO4I", "E_SO4J",
      "E_NO3I", "E_NO3J", "E_ORGI", "E_ORGJ", "E_ECI", "E_ECJ",
      "E_SO4C", "E_NO3C", "E_ORGC", "E_ECC">>

\* The hours from 2014-10-06 00:00 to 2014-10-12 23:00, counted from the
\* first of them
zeros_date == date_range(0, 7 * 24 - 1)

\* strftime("%Y-%m-%d_%H:%M:%S") of hour h after 2014-10-06 00:00
zeros_strftime(h) ==
    "2014-10-" \o Pad2(6 + (h \div 24)) \o "_" \o Pad2(h % 24) \o ":00:00"

\* np.zeros((len(date), 1, south_north, west_east))
emi_zero(dates, wrf) ==
    Tup([t \in 1..Len(dates) |->
           Tup([j \in 1..Len(wrf.XLAT) |->
                  Tup([i \in 1..Len(wrf.XLAT[1]) |-> 0])])])

create_zero_emi_dataarray(zero, dates, wrf) ==
    [data |-> zero,
     dims |-> <<"Time", "emissions_zdim", "south_north", "west_east">>,
     attrs |-> NoAttrs]

\* Lines 58-61: every species gets the zero array and its six attributes.
zeros_dataset(dates, wrf) ==
    LET emi == write_var_attributes(
                   create_zero_emi_dataarray(emi_zero(dates, wrf), dates, wrf))
    IN  [bound |-> TRUE,
         dims |-> <<"Time", "emissions_zdim", "south_north", "west_east">>,
         vars |-> [v \in Range(zeros_emiss_names) |-> emi],
         coords |-> [Time |-> dates, emissions_zdim |-> <<0>>,
                     south_north |-> [j \in 1..Len(wrf.XLAT) |-> j - 1],
                     west_east |-> [i \in 1..Len(wrf.XLAT[1]) |-> i - 1]],
         attrs |-> NoAttrs]

\* Lines 64-74: global attributes, TITLE, Times
zeros_compose(ds, wrf, dates) ==
    LET vars1 == set_variable(ds.vars, "TITLE",
                     title_variable("OUTPUT FROM AAS4WRF PREPROCESSOR"))
        vars2 == set_variable(vars1, "Times",
                     [data |-> [k \in 1..Len(dates) |->
                                   zeros_strftime(dates[k])],
                      dims |-> <<"Time">>, attrs |-> NoAttrs])
    IN  [bound |-> TRUE,
         dims |-> ds.dims,
         vars |-> vars2,
         coords |-> ds.coords,
         attrs |-> copy_global_attrs(ds.attrs, wrf.attrs)]

\* The script at its first line, for each wrfinput file it may find
InitZeros(GridIds, WrfStarts) ==
    \E g \in GridIds, wst \in WrfStarts :
        /\ script = "zeros"
        /\ pc = "zeros_create"
        /\ err = "none"
        /\ config = Unbound
        /\ disk = [f \in {"./wrfinput_d01"} |-> WrfFile(g, Strftime(wst))]
        /\ disk0 = disk
        /\ emiss_df = Unbound
        /\ lon1d = <<>>
        /\ lat1d = <<>>
        /\ date = <<>>
        /\ emiss_input = Unbound
        /\ wrfinput = Unbound
        /\ wrf_coords = Unbound
        /\ emiss_coords = Unbound
        /\ wrfchemi = Unbound
        /\ stdout = <<>>
        /\ cb_coord = <<>>
        /\ cb_final = <<>>

\* Short runs over every grid shape, table length and species list, and
\* the zero-emission script
Init ==
    \/ InitRun(1..MaxT, 1..MaxNx, 1..MaxNy, RowDeltas, ColNames, {1}, {0},
               {0}, BOOLEAN)
    \/ InitZeros({1}, {0})

\* Runs of up to MaxHours hours on a well-formed table, and the
\* zero-emission script
InitDay ==
    \/ InitRun(1..MaxHours, {2}, {2}, {0}, FullColNames, {1, 2}, {0, 24},
               {0, 24}, {FALSE})
    \/ InitZeros({1, 2}, {0, 24})

\* Lines 13-61 of wrfchemi_zeros.py
ZerosCreate ==
    /\ pc = "zeros_create" /\ script = "zeros"
    /\ wrfinput' = open_dataset(disk["./wrfinput_d01"])
    /\ date' = zeros_date
    /\ wrfchemi' = zeros_dataset(zeros_date, disk["./wrfinput_d01"])
    /\ pc' = "zeros_compose"
    /\ UNCHANGED <<script, err, config, disk, disk0, emiss_df, lon1d, lat1d,
                   emiss_input, wrf_coords, emiss_coords, stdout, cb_coord,
                   cb_final>>

\* Lines 64-74 of wrfchemi_zeros.py
ZerosCompose ==
    /\ pc = "zeros_compose" /\ script = "zeros"
    /\ wrfchemi' = zeros_compose(wrfchemi, wrfinput, date)
    /\ pc' = "zeros_write"
    /\ UNCHANGED <<script, err, config, disk, disk0, emiss_df, lon1d, lat1d,
                   date, emiss_input, wrfinput, wrf_coords, emiss_coords,
                   stdout, cb_coord, cb_final>>

\* Lines 77-82 of wrfchemi_zeros.py
ZerosWrite ==
    /\ pc = "zeros_write" /\ script = "zeros"
    /\ disk' = PutFile(disk, "wrfchemi_d01_zero.nc",
                       [kind |-> "netcdf", ds |-> wrfchemi])
    /\ pc' = "done"
    /\ UNCHANGED <<script, err, config, disk0, emiss_df, lon1d, lat1d, date,
                   emiss_input, wrfinput, wrf_coords, emiss_coords, wrfchemi,
                   stdout, cb_coord, cb_final>>

Next ==
    \/ ReadLocalEmiss
    \/ PyCreateDataset
    \/ AasCreateDataset
    \/ PyRegrid
    \/ AasRegrid
    \/ PyCompose
    \/ AasCompose
    \/ PyWrite
    \/ AasWrite
    \/ Finish
    \/ ZerosCreate
    \/ ZerosCompose
    \/ ZerosWrite

Spec == Init /\ [][Next]_vars

SpecDay == InitDay /\ [][Next]_vars

-----------------------------------------------------------------------------
(* cell_bound on its own, for every short array of coordinates *)

EvenCoords == {0, 2, 4, 6}

CoordArrays == UNION {[1..n -> EvenCoords] : n \in 1..MaxLen}

InitCellBound ==
    /\ cb_coord \in CoordArrays
    /\ cb_final = <<>>
    /\ pc = "cell_bound"
    /\ err = "none"
    /\ script = "cell_bound"
    /\ config = Unbound
    /\ disk = [f \in {} |-> UserFile]
    /\ disk0 = disk
    /\ emiss_df = Unbound
    /\ lon1d = <<>>
    /\ lat1d = <<>>
    /\ date = <<>>
    /\ emiss_input = Unbound
    /\ wrfinput = Unbound
    /\ wrf_coords = Unbound
    /\ emiss_coords = Unbound
    /\ wrfchemi = Unbound
    /\ stdout = <<>>

CellBoundCall ==
    /\ pc = "cell_bound"
    /\ IF cell_bound_raises(cb_coord)
       THEN Raise("IndexError") /\ UNCHANGED cb_final
       ELSE /\ cb_final' = cell_bound(cb_coord)
            /\ pc' = "done"
            /\ err' = err
    /\ UNCHANGED <<script, config, disk, disk0, emiss_df, lon1d, lat1d, date,
                   emiss_input, wrfinput, wrf_coords, emiss_coords, wrfchemi,
                   stdout, cb_coord>>

NextCellBound == CellBoundCall

SpecCellBound == InitCellBound /\ [][NextCellBound]_vars

-----------------------------------------------------------------------------
(* Vocabulary of the claims *)

emiss_names ==
    IF script = "zeros" THEN zeros_emiss_names
    ELSE emiss_names_of(config.col_names)

\* The files the run has created
NewFiles == (DOMAIN disk) \ (DOMAIN disk0)

\* The composer has run: the dataset carries its Times variable.
Composed == wrfchemi.bound /\ "Times" \in DOMAIN wrfchemi.vars

\* write_wrfchemi of src/pychemiss.py has run (it returned or raised).
PyWriteActed ==
    script = "pychemiss" /\ Composed /\ pc \in {"finish", "done", "error"}

ResultsPath(name) == "./results/" \o name

HalfDayNames ==
    {ResultsPath("wrfchemi_d0" \o Str(wrfinput.attrs.GRID_ID) \o "_00z"),
     ResultsPath("wrfchemi_d0" \o Str(wrfinput.attrs.GRID_ID) \o "_12z")}

\* The time stamps a written file holds
TimesOf(path) == disk[path].ds.vars["Times"].data

AllTimes == [k \in 1..Len(date) |-> Strftime(date[k])]

-----------------------------------------------------------------------------
(* C1 *)

\* C1: for every number N >= 1 of hourly steps, write_wrfchemi completes
\* without error and writes exactly the two half-day files when N = 24 and
\* exactly one file holding all N steps otherwise.
C1_WriteCompletesForEveryN ==
    PyWriteActed =>
        /\ err = "none"
        /\ IF Len(date) = 24
           THEN NewFiles = HalfDayNames
           ELSE /\ Cardinality(NewFiles) = 1
                /\ \A f \in NewFiles : TimesOf(f) = AllTimes

-----------------------------------------------------------------------------
(* C2 *)

\* C2: in each entry script, either supported method ('nearest_s2d' or
\* 'conservative') makes the method selector build a regridded dataset, and
\* the run does not stop on the dataset being undefined.
C2_EitherMethodRegrids ==
    /\ (pc = "compose" /\ config.method \in Methods) => wrfchemi.bound
    /\ err # "NameError"

-----------------------------------------------------------------------------
(* C4 *)

\* Natural numbers as sequences of decimal digits, lowest digit first, for
\* the products that do not fit in 32 bits.
RECURSIVE Digits(_)
Digits(n) == IF n < 10 THEN <<n>> ELSE <<n % 10>> \o Digits(n \div 10)

RECURSIVE Carry(_, _)
Carry(s, c) ==
    IF s = <<>> THEN (IF c = 0 THEN <<>> ELSE Digits(c))
    ELSE <<(s[1] + c) % 10>> \o Carry(Tail(s), (s[1] + c) \div 10)

DigitsTimes(a, b) ==
    Carry([k \in 1..(Len(a) + Len(b) - 1) |->
             SumSeq([i \in 1..Len(a) |->
                       IF (k + 1 - i) \in 1..Len(b)
                       THEN a[i] * b[k + 1 - i] ELSE 0])], 0)

DigitsTimesPowerOfTen(a, k) == [i \in 1..k |-> 0] \o a

RECURSIVE StripZeros(_)
StripZeros(a) ==
    IF Len(a) > 1 /\ a[Len(a)] = 0
    THEN StripZeros(SubSeq(a, 1, Len(a) - 1)) ELSE a

\* v = 100 * after / before, the three of them decimal fractions
IsPercentageOf(v, before, after) ==
    /\ before.num # 0
    /\ StripZeros(DigitsTimesPowerOfTen(
                     DigitsTimes(Digits(v.num), Digits(before.num)),
                     after.exp10))
       = StripZeros(DigitsTimesPowerOfTen(Digits(after.num),
                                          2 + before.exp10 + v.exp10))

\* The sum over time and space of the emission of every cell times the
\* weight of the cell
WeightedSum(grid, w) ==
    SumSeq([t \in 1..Len(grid) |->
       SumSeq([j \in 1..Len(grid[t]) |->
          SumSeq([i \in 1..Len(grid[t][j]) |-> grid[t][j][i] * w[j][i]])])])

\* The diagnostic has printed its report (the first eight lines of stdout).
DiagnosticRan == Len(stdout) >= 8

\* Area of the cells of the emission grid: the configured cell area in km^2
\* (src/pychemiss.py), the area in m^2 from cdo gridarea (aas4wrf.py)
InputArea ==
    IF script = "pychemiss"
    THEN [j \in 1..Len(emiss_input.coords.lat) |->
            [i \in 1..Len(emiss_input.coords.lat[j]) |-> config.cell_area]]
    ELSE cdo_gridarea(emiss_input.coords.lat, emiss_input.coords.lon)

\* Total mass in kTn before regridding: mol km^-2 h^-1 times km^2 times
\* g/mol, 10^9 g to the kTn, and 10^6 m^2 to the km^2 where areas are in m^2
InputTotal(pol) ==
    Dec(WeightedSum(emiss_input.vars[pol].data, InputArea)
            * MolecularMass[pol],
        IF script = "pychemiss" THEN 9 ELSE 15)

\* Total mass in kTn after regridding: every WRF cell is DX * DY m^2.
RegriddedTotal(pol) ==
    Dec(WeightedSum(wrfchemi.vars[pol].data,
                    [j \in 1..2 |-> [i \in 1..2 |->
                        wrfinput.attrs.DX * wrfinput.attrs.DY]])
            * MolecularMass[pol], 15)

\* C4 as stated: for each checked species (CO, NO, NO2) the diagnostic sums
\* the emissions weighted by cell area and molecular mass before and after
\* regridding and reports the percentage of the input total that is
\* conserved after regridding.
C4_ReportsPercentageConserved ==
    DiagnosticRan =>
        \A k \in 1..Len(CheckedSpecies) :
            \E n \in 1..Len(stdout) :
                /\ stdout[n].args # <<>>
                /\ IsPercentageOf(stdout[n].args[1],
                                  InputTotal(CheckedSpecies[k]),
                                  RegriddedTotal(CheckedSpecies[k]))

\* C4 amended: for each checked species (CO, NO, NO2) the diagnostic sums
\* the emissions weighted by cell area and molecular mass before and after
\* regridding and reports these two totals in kTn, the three input totals
\* first and the three totals after regridding next; it reports no other
\* number.
C4_ReportsTheTwoTotals ==
    DiagnosticRan =>
        /\ \A k \in 1..Len(CheckedSpecies) :
              /\ stdout[1 + k].args = <<InputTotal(CheckedSpecies[k])>>
              /\ stdout[5 + k].args = <<RegriddedTotal(CheckedSpecies[k])>>
        /\ \A n \in 1..Len(stdout) : stdout[n].args # <<>> => n \in {2, 3, 4, 6, 7, 8}

\* The conservative method has printed its report for a grid whose rows of
\* cells differ in area.
C4_Witness ==
    /\ DiagnosticRan
    /\ script = "aas4wrf"
    /\ pc = "compose"
    /\ Len(emiss_input.coords.lat) = 2 /\ Len(date) = 2
    /\ InputTotal("E_CO") # RegriddedTotal("E_CO")

-----------------------------------------------------------------------------
(* C5 *)

CellBoundReturned == script = "cell_bound" /\ pc = "done"

\* The edges the claim describes, for the n centres of cb_coord
EdgesAsClaimed ==
    LET n == Len(cb_coord)
    IN  /\ Len(cb_final) = n + 1
        /\ \A k \in 2..n : 2 * cb_final[k] = cb_coord[k - 1] + cb_coord[k]
        /\ 2 * cb_final[1] = 2 * cb_coord[1] - (cb_coord[2] - cb_coord[1])
        /\ 2 * cb_final[n + 1] =
              2 * cb_coord[n] + (cb_coord[n] - cb_coord[n - 1])

\* C5 as stated: for every array of n >= 1 centres cell_bound returns the
\* n + 1 edges (midpoints inside, half a spacing beyond each end).
C5_EdgesForEveryN ==
    (script = "cell_bound" /\ pc # "cell_bound") =>
        (err = "none" /\ Len(cb_final) = Len(cb_coord) + 1)

\* C5 amended: for every array of n >= 2 centres cell_bound returns n + 1
\* edges: edge i (0 < i < n) is the midpoint of centres i-1 and i, edge 0 is
\* centre 0 minus half the first spacing, edge n is centre n-1 plus half the
\* last spacing; an array of one centre raises IndexError.
C5_EdgesForTwoOrMore ==
    /\ CellBoundReturned => EdgesAsClaimed
    /\ (script = "cell_bound" /\ pc # "cell_bound") =>
          (err = "none" <=> Len(cb_coord) >= 2)

\* Three centres with unequal spacings, and their four edges
C5_Witness ==
    /\ CellBoundReturned
    /\ cb_coord = <<0, 2, 6>>
    /\ cb_final = <<0 - 1, 1, 4, 8>>

-----------------------------------------------------------------------------
(* C6 *)

\* The table has exactly T * ny * nx rows and has been reshaped.
ReshapedExact ==
    /\ emiss_input.bound
    /\ emiss_df.nrows = Len(date) * config.ny * config.nx

\* C6: for a table of exactly T*ny*nx rows, the value of flat row
\* t*(ny*nx) + j*nx + i of every species is at grid position [t, j, i], and
\* the grid has T * ny * nx cells, so that every row is there exactly once.
C6_ReshapeKeepsEveryRow ==
    ReshapedExact =>
        \A emi \in Range(emiss_names) :
            LET grid == emiss_input.vars[emi].data
                ny == config.ny
                nx == config.nx
            IN  /\ Len(grid) = Len(date)
                /\ \A t \in 1..Len(grid) :
                      /\ Len(grid[t]) = ny
                      /\ \A j \in 1..ny : Len(grid[t][j]) = nx
                /\ \A t \in 0..(Len(date) - 1), j \in 0..(ny - 1),
                      i \in 0..(nx - 1) :
                      grid[t + 1][j + 1][i + 1] =
                          emiss_df.cols[emi][t * (ny * nx) + j * nx + i + 1]

\* A grid of at least two hours, two rows and two columns has been reshaped.
C6_Witness ==
    /\ ReshapedExact
    /\ Len(date) >= 2 /\ config.ny >= 2 /\ config.nx >= 2
    /\ script = "aas4wrf"

-----------------------------------------------------------------------------
(* C7 *)

RunEnded == pc \in {"done", "error"}

\* The paths a run may write its wrfchemi output to
IsOutputFile(f) ==
    \/ f = config.output_name
    \/ wrfinput.bound /\ f \in HalfDayNames
    \/ wrfinput.bound /\
         f = ResultsPath("wrfchemi_d0" \o Str(wrfinput.attrs.GRID_ID) \o "_"
                         \o wrfinput.Times[1])

\* C7: apart from its wrfchemi output file(s), a run that has ended, with
\* success or with an error, has created, overwritten and deleted no file.
C7_OnlyOutputFilesChange ==
    (script \in Scripts /\ RunEnded) =>
        /\ \A f \in DOMAIN disk0 :
              IsOutputFile(f) \/ (f \in DOMAIN disk /\ disk[f] = disk0[f])
        /\ \A f \in NewFiles : IsOutputFile(f)

-----------------------------------------------------------------------------
(* C8 *)

SpeciesAttributes ==
    [FieldType |-> 104, MemoryOrder |-> "XYZ", description |-> "EMISSIONS",
     units |-> "mol km^2 hr^-1", stagger |-> "", coordinates |-> "XLONG XLAT"]

\* C8: after the output composer has run, every species of the species list
\* (the table columns after the first three) carries the six attributes
\* FieldType, MemoryOrder, description, units, stagger and coordinates.
C8_EverySpeciesStamped ==
    Composed =>
        \A emi \in Range(emiss_names) :
            /\ emi \in DOMAIN wrfchemi.vars
            /\ \A a \in DOMAIN SpeciesAttributes :
                  /\ a \in DOMAIN wrfchemi.vars[emi].attrs
                  /\ wrfchemi.vars[emi].attrs[a] = SpeciesAttributes[a]

\* The composer has run on a table of four species.
C8_Witness ==
    /\ Composed
    /\ Len(emiss_names) = 4
    /\ pc = "write"

-----------------------------------------------------------------------------
(* C9 *)

\* C9: for a run of more than 24 hourly steps the output is the single file
\* wrfchemi_d0<GRID_ID>_<date>, <date> being the first of the dates of the
\* emission file.
C9_NameFromEmissionDates ==
    (PyWriteActed /\ Len(date) > 24) =>
        NewFiles = {ResultsPath("wrfchemi_d0" \o Str(wrfinput.attrs.GRID_ID)
                                \o "_" \o Strftime(date[1]))}

-----------------------------------------------------------------------------
(* C10 *)

\* C10: with exactly 24 hourly steps the two files partition the time axis:
\* the 00z file holds steps 0..11 in order, the 12z file steps 12..23 in
\* order, each step in exactly one of them (time stamps, Time coordinate and
\* the data of every species alike).
C10_HalfDaysPartitionTheDay ==
    (PyWriteActed /\ err = "none" /\ Len(date) = 24) =>
        LET g == Str(wrfinput.attrs.GRID_ID)
            f00 == disk[ResultsPath("wrfchemi_d0" \o g \o "_00z")].ds
            f12 == disk[ResultsPath("wrfchemi_d0" \o g \o "_12z")].ds
        IN  /\ f00.vars["Times"].data \o f12.vars["Times"].data = AllTimes
            /\ Len(f00.vars["Times"].data) = 12
            /\ f00.coords.Time = [k \in 1..12 |-> k - 1]
            /\ f12.coords.Time = [k \in 1..12 |-> k + 11]
            /\ \A emi \in Range(emiss_names) :
                  /\ Len(f00.vars[emi].data) = 12
                  /\ f00.vars[emi].data \o f12.vars[emi].data
                        = wrfchemi.vars[emi].data

\* A run of exactly 24 hours has written its two files.
C10_Witness ==
    /\ PyWriteActed /\ err = "none" /\ Len(date) = 24
    /\ NewFiles = HalfDayNames
    /\ pc = "done"

-----------------------------------------------------------------------------
(* C11 *)

\* C11: after the output composer has run (in src/pychemiss.py, aas4wrf.py
\* and wrfchemi_zeros.py alike), every global attribute of the wrfinput
\* dataset is a global attribute of the output dataset with the same value;
\* the TITLE the composer assigns replaces or removes none of them.
C11_GlobalAttributesKept ==
    Composed =>
        \A k \in DOMAIN wrfinput.attrs :
            /\ k \in DOMAIN wrfchemi.attrs
            /\ wrfchemi.attrs[k] = wrfinput.attrs[k]

\* The composer has assigned its TITLE, and the TITLE attribute of wrfinput
\* is in the output all the same.
C11_Witness ==
    /\ Composed
    /\ script = "aas4wrf"
    /\ "TITLE" \in DOMAIN wrfchemi.vars
    /\ wrfchemi.vars["TITLE"].data = "OUTPUT FROM AAS4WRF PREPROCESSOR"
    /\ wrfchemi.attrs["TITLE"] = " OUTPUT FROM REAL_EM V4.1 PREPROCESSOR"

-----------------------------------------------------------------------------
(* C12 *)

\* conservative_method of aas4wrf.py has returned.
ConservativeReturned ==
    /\ script = "aas4wrf" /\ pc = "compose"
    /\ config.method = "conservative" /\ wrfchemi.bound

\* What the conservative regridder gives for the emission dataset
RegridderOutput ==
    xe_regrid(emiss_input,
              MeshLat(emiss_coords.lon, emiss_coords.lat),
              MeshLon(emiss_coords.lon, emiss_coords.lat),
              MeshLat(wrf_coords.lon, wrf_coords.lat),
              MeshLon(wrf_coords.lon, wrf_coords.lat))

\* C12: the dataset conservative_method returns is the regridder's output
\* with each value divided by the cell area (returned value times area is
\* the regridder's value), not the raw regridder output.
C12_ReturnsOutputOverArea ==
    ConservativeReturned =>
        /\ wrfchemi # RegridderOutput
        /\ \A emi \in Range(emiss_names) :
              LET got == wrfchemi.vars[emi].data
                  raw == RegridderOutput.vars[emi].data
              IN  \A t \in 1..Len(raw) : \A j \in 1..Len(raw[t]) :
                     \A i \in 1..Len(raw[t][j]) :
                        got[t][j][i] * (wrfinput.attrs.DX * wrfinput.attrs.DY)
                            = raw[t][j][i]

-----------------------------------------------------------------------------
(* C13 *)

\* The latitude and longitude labels of grid cell [j, i] (from 1): a 2-D
\* mesh in src/pychemiss.py, two 1-D axes in aas4wrf.py
LatLabel(j, i) ==
    IF script = "pychemiss" THEN emiss_input.coords.lat[j][i]
    ELSE emiss_input.coords.lat[j]

LonLabel(j, i) ==
    IF script = "pychemiss" THEN emiss_input.coords.lon[j][i]
    ELSE emiss_input.coords.lon[i]

\* C13: in both entry scripts, for a table ordered time-major with longitude
\* varying fastest, the latitude label of grid row j is the latitude of the
\* table rows reshaped into grid row j and the longitude label of column i
\* is the longitude of table row i; the two reversals of aas4wrf.py cancel.
C13_LabelsFollowData ==
    ReshapedExact =>
        \A t \in 0..(Len(date) - 1), j \in 0..(config.ny - 1),
           i \in 0..(config.nx - 1) :
            LET r == t * (config.ny * config.nx) + j * config.nx + i + 1
            IN  /\ LatLabel(j + 1, i + 1) = emiss_df.cols["lat"][r]
                /\ LonLabel(j + 1, i + 1) = emiss_df.cols["lon"][r]
                /\ LonLabel(j + 1, i + 1) = emiss_df.cols["lon"][i + 1]

\* aas4wrf.py has reshaped a table of two latitudes: the main block held
\* them reversed, the grid is labelled in the order of the table.
C13_Witness ==
    /\ ReshapedExact
    /\ script = "aas4wrf"
    /\ config.ny = 2 /\ config.nx = 2
    /\ lat1d = <<2, 0>>
    /\ emiss_input.coords.lat = <<0, 2>>

-----------------------------------------------------------------------------
(* C14 *)

\* The hourly steps from start_date to end_date inclusive
HourlySteps == config.end_date - config.start_date + 1

\* The reshaping step of a run has acted (it returned or raised).
ReshapeActed == script \in Scripts /\ pc \notin {"read", "reshape"}

\* C14: if the number of table rows differs from T*ny*nx, T the number of
\* hourly steps from start_date to end_date inclusive, the run ends in an
\* error during reshaping and no wrfchemi output file is written.
C14_WrongRowCountStopsAtReshape ==
    (ReshapeActed /\ emiss_df.nrows # HourlySteps * config.ny * config.nx) =>
        /\ pc = "error"
        /\ err = "ValueError"
        /\ ~emiss_input.bound
        /\ NewFiles = {}

-----------------------------------------------------------------------------
(* C15 *)

\* The run is one that performs the diagnostic, and its regridding step has
\* got as far as the diagnostic (in conservative_method of aas4wrf.py the
\* cell bounds of a grid of one row or one column raise before it).
DiagnosticReached ==
    /\ script \in Scripts
    /\ emiss_input.bound
    /\ pc \notin {"read", "reshape", "regrid"}
    /\ \/ script = "pychemiss" /\ config.method = "nearest_s2d"
       \/ /\ script = "aas4wrf" /\ config.method = "conservative"
          /\ Len(emiss_input.coords.lon) >= 2
          /\ Len(emiss_input.coords.lat) >= 2

LacksCheckedSpecies ==
    ~({"E_CO", "E_NO", "E_NO2"} \subseteq Range(emiss_names))

\* C15: in a run that performs the conservation diagnostic, if the species
\* list lacks any of E_CO, E_NO or E_NO2 the run ends in an error (KeyError)
\* inside the diagnostic: after reshaping and regridding, with no line of
\* the report printed, the composer not run and no wrfchemi output file
\* written.
C15_MissingSpeciesStopsInDiagnostic ==
    (DiagnosticReached /\ LacksCheckedSpecies) =>
        /\ pc = "error"
        /\ err = "KeyError"
        /\ stdout = <<>>
        /\ ~wrfchemi.bound
        /\ \A f \in NewFiles : ~IsOutputFile(f)

\* conservative_method has stopped in its diagnostic on a table that has
\* E_CO and E_NO but no E_NO2.
C15_Witness ==
    /\ DiagnosticReached /\ LacksCheckedSpecies
    /\ script = "aas4wrf"
    /\ "E_NO" \in Range(emiss_names)
    /\ pc = "error" /\ err = "KeyError"

====
